---- MODULE Spec2Model ----
(***************************************************************************)
(* State-machine model of CountdownPlugin (src/manager.py): the rotation   *)
(* scheduler, the enable/expiry filter, the countdown calculator, the two  *)
(* caches (countdown_values, cached_images) and the frame the display      *)
(* manager is left with.                                                   *)
(*                                                                         *)
(* Representation                                                          *)
(*   - a countdown entry (a Python dict) is a TLA+ record; a key that is   *)
(*     absent from the dict is absent from the record's DOMAIN, so that    *)
(*     dict.get(k, default) is Get(e, k, default);                         *)
(*   - a list element that is not a dict is the record NotADict;           *)
(*   - an id that is not hashable (a list) is the value UnhashableId;      *)
(*   - a target_date value is a record [k, y, m, d]: k = "ymd" is the      *)
(*     string "y-m-d" made of digits, k = "text" a string that is no date, *)
(*     k = "int" a value that is no string, k = "empty" the string "";     *)
(*   - a composited image is identified by the path it was composed from;  *)
(*   - time.time() is the variable now, date.today() the variable today;   *)
(*     one handler call reads one value of the clock.                      *)
(***************************************************************************)
EXTENDS Integers, Sequences, FiniteSets, TLC

VARIABLES
    config,                  \* self.config: the keys read after construction
    countdowns,              \* self.countdowns
    show_expired,            \* self.show_expired
    current_countdown_index, \* self.current_countdown_index
    last_rotation_time,      \* self.last_rotation_time
    cached_images,           \* self.cached_images: id -> composited image
    countdown_values,        \* self.countdown_values: id -> CountdownResult
    now,                     \* the clock read by time.time()
    today,                   \* the date read by date.today(), <<y, m, d>>
    call,                    \* the last public call: what it observed, rendered and returned
    arg                      \* the argument of the last helper call (pure-function checks)

vars == <<config, countdowns, show_expired, current_countdown_index,
          last_rotation_time, cached_images, countdown_values, now, today,
          call, arg>>

----------------------------------------------------------------------------
(* Bounds of the model *)

\* the clock runs 0..MaxTime; past that the time origin is shifted (see Tick)
MaxTime == 1
\* date rollovers taken after construction
MaxDayRolls == 1
\* longest entry list a configuration carries
MaxEntries == 2

----------------------------------------------------------------------------
(* Python helpers *)

\* dict.get(k, default)
Get(e, k, default) == IF k \in DOMAIN e THEN e[k] ELSE default

\* dict with key k set to v
Put(f, k, v) == [x \in (DOMAIN f) \cup {k} |-> IF x = k THEN v ELSE f[x]]

EmptyDict == [x \in {} |-> FALSE]

NotADict == [not_a_dict |-> TRUE]
IsDict(e) == "not_a_dict" \notin DOMAIN e

UnhashableId == "<list>"
NoneId == "<None>"
Hashable(id) == id # UnhashableId

\* truthiness of an id value: None and "" are falsy
TruthyId(id) == id # NoneId /\ id # ""

NoDate == [k |-> "none", y |-> 0, m |-> 0, d |-> 0]

\* truthiness of a target_date value: None and the empty string are falsy
TruthyDate(td) == td.k \notin {"none", "empty"}

----------------------------------------------------------------------------
(* Calendar: datetime.strptime(s, '%Y-%m-%d').date() and date subtraction *)

IsLeap(y) == (y % 4 = 0) /\ ((y % 100 # 0) \/ (y % 400 = 0))

DaysInMonth(y, m) ==
    IF m = 2 THEN (IF IsLeap(y) THEN 29 ELSE 28)
    ELSE IF m \in {4, 6, 9, 11} THEN 30 ELSE 31

RECURSIVE DaysBeforeMonth(_, _)
DaysBeforeMonth(y, m) ==
    IF m <= 1 THEN 0 ELSE DaysBeforeMonth(y, m - 1) + DaysInMonth(y, m - 1)

DaysBeforeYear(y) ==
    (y - 1) * 365 + ((y - 1) \div 4) - ((y - 1) \div 100) + ((y - 1) \div 400)

\* date.toordinal()
Ordinal(t) == DaysBeforeYear(t[1]) + DaysBeforeMonth(t[1], t[2]) + t[3]

\* strptime succeeds: a string of the form Y-M-D naming a real date
Parses(s) ==
    /\ s.k = "ymd"
    /\ s.y \in 1..9999
    /\ s.m \in 1..12
    /\ s.d \in 1..DaysInMonth(s.y, s.m)

\* the day after t
NextDate(t) ==
    IF t[3] < DaysInMonth(t[1], t[2]) THEN <<t[1], t[2], t[3] + 1>>
    ELSE IF t[2] < 12 THEN <<t[1], t[2] + 1, 1>>
    ELSE <<t[1] + 1, 1, 1>>

Abs(n) == IF n < 0 THEN -n ELSE n

----------------------------------------------------------------------------
(* Countdown calculator *)

ErrorResult == [days |-> 0, is_expired |-> FALSE, is_today |-> FALSE, text |-> "Error"]

CalcMutantNoAbs(s, t) ==
    IF ~Parses(s) THEN ErrorResult
    ELSE LET delta == Ordinal(<<s.y, s.m, s.d>>) - Ordinal(t) IN
         IF delta < 0
         THEN [days |-> delta, is_expired |-> TRUE, is_today |-> FALSE,
               text |-> ToString(delta) \o "d ago"]
         ELSE IF delta = 0
         THEN [days |-> 0, is_expired |-> FALSE, is_today |-> TRUE, text |-> "TODAY!"]
         ELSE [days |-> delta, is_expired |-> FALSE, is_today |-> FALSE,
               text |-> ToString(delta) \o " Days"]

\* _calculate_time_remaining(target_date_str) with date.today() = t
\* (hours and minutes are always 0 and are left out)
CalculateTimeRemaining(s, t) ==
    IF ~Parses(s) THEN ErrorResult
    ELSE LET delta == Ordinal(<<s.y, s.m, s.d>>) - Ordinal(t) IN
         IF delta < 0
         THEN [days |-> Abs(delta), is_expired |-> TRUE, is_today |-> FALSE,
               text |-> ToString(Abs(delta)) \o "d ago"]
         ELSE IF delta = 0
         THEN [days |-> 0, is_expired |-> FALSE, is_today |-> TRUE, text |-> "TODAY!"]
         ELSE IF delta = 1
         THEN [days |-> 1, is_expired |-> FALSE, is_today |-> FALSE, text |-> "1 Day"]
         ELSE [days |-> delta, is_expired |-> FALSE, is_today |-> FALSE,
               text |-> ToString(delta) \o " Days"]

----------------------------------------------------------------------------
(* Entry list normalisation: list.sort(key=lambda x: x.get('display_order', 0)) *)

SortKey(e) == Get(e, "display_order", 0)

\* the key function raises AttributeError on an element that is not a dict
SortRaises(cds) == \E i \in 1..Len(cds) : ~IsDict(cds[i])

InsertMutantUnstable(s, e) ==
    LET k == Cardinality({i \in 1..Len(s) : SortKey(s[i]) < SortKey(e)})
    IN  SubSeq(s, 1, k) \o <<e>> \o SubSeq(s, k + 1, Len(s))

\* the place of e among the elements sorted so far: after every element whose
\* key is not greater
InsertSorted(s, e) ==
    LET k == Cardinality({i \in 1..Len(s) : SortKey(s[i]) <= SortKey(e)})
    IN  SubSeq(s, 1, k) \o <<e>> \o SubSeq(s, k + 1, Len(s))

RECURSIVE SortFrom(_, _, _)
SortFrom(cds, i, acc) ==
    IF i > Len(cds) THEN acc ELSE SortFrom(cds, i + 1, InsertSorted(acc, cds[i]))

\* stable ascending sort by display_order (default 0)
SortByDisplayOrder(cds) == SortFrom(cds, 1, <<>>)

\* config.get('countdowns', []) followed by the isinstance(list) fallback
ConfigCountdowns(cfg) == IF cfg.is_list THEN cfg.countdowns ELSE <<>>

----------------------------------------------------------------------------
(* Filtered list *)

RECURSIVE EnabledFrom(_, _, _, _, _)
EnabledFrom(cds, values, se, i, acc) ==
    IF i > Len(cds) THEN [raised |-> FALSE, idx |-> acc]
    ELSE LET e == cds[i] IN
         IF ~IsDict(e) THEN [raised |-> TRUE, idx |-> acc]
         ELSE IF ~Get(e, "enabled", TRUE)
         THEN EnabledFrom(cds, values, se, i + 1, acc)
         ELSE LET id == Get(e, "id", NoneId) IN
              IF ~Hashable(id) THEN [raised |-> TRUE, idx |-> acc]
              ELSE IF id \in DOMAIN values /\ values[id].is_expired /\ ~se
              THEN EnabledFrom(cds, values, se, i + 1, acc)
              ELSE EnabledFrom(cds, values, se, i + 1, Append(acc, i))

GetEnabledMutantAll(cds, values, se) ==
    [raised |-> FALSE, idx |-> [j \in 1..Len(cds) |-> j]]

\* _get_enabled_countdowns(): the positions in self.countdowns of the entries
\* of the filtered list, in order, or the exception it raises
GetEnabledCountdowns(cds, values, se) == EnabledFrom(cds, values, se, 1, <<>>)

\* the filtered list of the current state
Enabled == GetEnabledCountdowns(countdowns, countdown_values, show_expired)
Filtered == [j \in 1..Len(Enabled.idx) |-> countdowns[Enabled.idx[j]]]

----------------------------------------------------------------------------
(* update(): the loop over self.countdowns inside try/except *)

RECURSIVE UpdateFrom(_, _, _, _)
UpdateFrom(cds, values, t, i) ==
    IF i > Len(cds) THEN values
    ELSE LET e == cds[i] IN
         IF ~IsDict(e) THEN values            \* AttributeError ends the loop
         ELSE LET id == Get(e, "id", NoneId)
                  td == Get(e, "target_date", NoDate)
              IN  IF TruthyId(id) /\ TruthyDate(td)
                  THEN IF ~Hashable(id) THEN values   \* TypeError ends the loop
                       ELSE UpdateFrom(cds, Put(values, id, CalculateTimeRemaining(td, t)),
                                       t, i + 1)
                  ELSE UpdateFrom(cds, values, t, i + 1)

UpdateValues(cds, values, t) == UpdateFrom(cds, values, t, 1)

----------------------------------------------------------------------------
(* Inputs: dates, entries, configurations, the file system *)

\* date.today() when the plugin is constructed (a leap day follows)
Today0 == <<2024, 2, 28>>

Ymd(y, m, d) == [k |-> "ymd", y |-> y, m |-> m, d |-> d]

\* image files that exist and can be opened; any other path is missing
ExistingFiles == {"p1.png", "p2.png"}

\* an entry without an image, and one with image: [{path: ...}]
Entry(id, td, en, ord) ==
    [id |-> id, name |-> id, target_date |-> td, enabled |-> en,
     display_order |-> ord]
ImageEntry(id, td, en, ord, path) ==
    [id |-> id, name |-> id, target_date |-> td, enabled |-> en,
     display_order |-> ord, image |-> path]

\* well-formed entries. On Today0 a is due today (expired after midnight), c
\* stays in the future, d is disabled
EntryPool ==
    { Entry("a", Ymd(2024, 2, 28), TRUE, 1),
      Entry("c", Ymd(2024, 3, 2), TRUE, 0),
      Entry("d", Ymd(2024, 3, 1), FALSE, 0) }

\* the lists of at most n elements of S
SeqsUpTo(S, n) == UNION {[1..k -> S] : k \in 0..n}
\* those that hold no element twice
DistinctSeqsUpTo(S, n) ==
    {l \in SeqsUpTo(S, n) : \A i, j \in 1..Len(l) : l[i] = l[j] => i = j}

DurationSet == {0, 1}

ConfigsOver(lists, ses, durs) ==
    { [is_list |-> TRUE, countdowns |-> l, show_expired |-> se, display_duration |-> dur] :
        l \in lists, se \in ses, dur \in durs }

Configs == ConfigsOver(DistinctSeqsUpTo(EntryPool, MaxEntries), BOOLEAN, DurationSet)

\* on_config_change() reads no show_expired: one value of it stands for both
Reconfigs == {cfg \in Configs : ~cfg.show_expired}

----------------------------------------------------------------------------
(* Frames and call records *)

BlankFrame == [kind |-> "blank", id |-> "", name |-> "", text |-> "",
               is_today |-> FALSE, image |-> ""]
NoCountdownsFrame == [kind |-> "no_countdowns", id |-> "", name |-> "No Active",
                      text |-> "Countdowns", is_today |-> FALSE, image |-> ""]
ErrorFrame == [kind |-> "error", id |-> "", name |-> "Countdown",
               text |-> "Error", is_today |-> FALSE, image |-> ""]

\* op: the method; raised: an exception escaped it; ret: its return value
\* (for __init__, which returns nothing, the list it was constructed from);
\* pre_index, n: the index it found and the length of the filtered list it
\* computed (-1: none computed); frame: what display() presented (BlankFrame:
\* nothing). The environment's steps reset it, so that call always describes
\* the step just taken
Call(op, raised, ret, pre, n, fr) ==
    [op |-> op, raised |-> raised, ret |-> ret, pre_index |-> pre, n |-> n,
     frame |-> fr]

\* where a collaborator (display manager, font manager) raises during display():
\* early = before the image step, late = after it, persistent = in the fallback
\* frame as well
Faults == {"none", "early", "late", "persistent"}

----------------------------------------------------------------------------
(* __init__ *)

\* the state __init__ leaves, constructed from cfg on date t
InitWith(cfg, t) ==
    /\ ~SortRaises(ConfigCountdowns(cfg))       \* else construction fails
    /\ config = [display_duration |-> cfg.display_duration]
    /\ countdowns = SortByDisplayOrder(ConfigCountdowns(cfg))
    /\ show_expired = cfg.show_expired
    /\ current_countdown_index = 0
    /\ last_rotation_time = 0
    /\ cached_images = EmptyDict
    /\ countdown_values = EmptyDict
    /\ now = 0
    /\ today = t
    /\ call = Call("__init__", FALSE, ConfigCountdowns(cfg), 0, -1, BlankFrame)

Init == (\E cfg \in Configs : InitWith(cfg, Today0)) /\ arg = NoDate

----------------------------------------------------------------------------
(* Environment *)

\* a second passes. Only now - last_rotation_time is ever read, so once the
\* clock is at MaxTime the origin moves instead: elapsed time saturates there
Tick ==
    /\ IF now < MaxTime
       THEN now' = now + 1 /\ UNCHANGED last_rotation_time
       ELSE /\ last_rotation_time > 0
            /\ last_rotation_time' = last_rotation_time - 1
            /\ UNCHANGED now
    /\ call' = Call("tick", FALSE, "None", current_countdown_index, -1, BlankFrame)
    /\ UNCHANGED <<config, countdowns, show_expired, current_countdown_index,
                   cached_images, countdown_values, today, arg>>

\* midnight passes
NextDay ==
    /\ Ordinal(today) - Ordinal(Today0) < MaxDayRolls
    /\ today' = NextDate(today)
    /\ call' = Call("midnight", FALSE, "None", current_countdown_index, -1, BlankFrame)
    /\ UNCHANGED <<config, countdowns, show_expired, current_countdown_index,
                   last_rotation_time, cached_images, countdown_values, now, arg>>

----------------------------------------------------------------------------
(* Public operations *)

\* every variable of the plugin object and its environment but call
state == <<config, countdowns, show_expired, current_countdown_index,
           last_rotation_time, cached_images, countdown_values, now, today, arg>>

\* update()
Update ==
    /\ countdown_values' = UpdateValues(countdowns, countdown_values, today)
    /\ call' = Call("update", FALSE, "None", current_countdown_index, -1, BlankFrame)
    /\ UNCHANGED <<config, countdowns, show_expired, current_countdown_index,
                   last_rotation_time, cached_images, now, today, arg>>

ClampMutantKeep(i, n) == i

ClampMutantOffByOne(i, n) == IF i > n THEN 0 ELSE i

\* _get_current_countdown(): "Ensure index is within bounds"
ClampIndex(i, n) == IF i >= n THEN 0 ELSE i

RotateMutantStay(i, n) == i

RotateMutantNoWrap(i, n) == IF i + 1 >= n THEN i ELSE i + 1

\* _rotate_to_next_countdown(): the index after a rotation over n entries
RotateIndex(i, n) == (i + 1) % n

ImageMutantCacheMissing(cache, id, path) ==
    IF path # "" /\ id \notin DOMAIN cache THEN Put(cache, id, path) ELSE cache

ImageMutantReload(cache, id, path) ==
    IF path # "" /\ path \in ExistingFiles THEN Put(cache, id, path) ELSE cache

\* the image step of display(): the cache after it, for entry id with image path
ImageStep(cache, id, path) ==
    IF path # "" /\ id \notin DOMAIN cache /\ path \in ExistingFiles
    THEN Put(cache, id, path)
    ELSE cache

\* the frame display() assembles for entry e from the two caches
CountdownFrame(e, cache, values) ==
    LET id   == Get(e, "id", NoneId)
        path == Get(e, "image", "")
        data == IF id \in DOMAIN values THEN values[id]
                ELSE [text |-> "---", is_today |-> FALSE]
    IN  [kind |-> "countdown", id |-> id, name |-> Get(e, "name", "Countdown"),
         text |-> data.text, is_today |-> data.is_today,
         image |-> IF path # "" /\ id \in DOMAIN cache THEN cache[id] ELSE ""]

\* what display() presents when a collaborator raises at `fault`
Presented(fault, fr) ==
    CASE fault = "none" -> fr
      [] fault \in {"early", "late"} -> ErrorFrame
      [] OTHER -> BlankFrame

\* display(force_clear)
Display(fault) ==
    LET en == Enabled
        n  == Len(en.idx)
        i  == ClampIndex(current_countdown_index, n)
    IN
    /\ IF en.raised
       THEN \* _get_current_countdown() is called outside the try block
            /\ call' = Call("display", TRUE, "raise", current_countdown_index, -1,
                            BlankFrame)
            /\ UNCHANGED <<current_countdown_index, cached_images>>
       ELSE IF n = 0
       THEN \* _display_no_countdowns(), with its own try/except
            /\ call' = Call("display", FALSE, "None", current_countdown_index, 0,
                            IF fault = "none" THEN NoCountdownsFrame ELSE BlankFrame)
            /\ UNCHANGED <<current_countdown_index, cached_images>>
       ELSE IF i >= n
       THEN \* enabled[index] raises IndexError, outside the try block
            /\ call' = Call("display", TRUE, "raise", current_countdown_index, n,
                            BlankFrame)
            /\ current_countdown_index' = i
            /\ UNCHANGED cached_images
       ELSE LET e     == countdowns[en.idx[i + 1]]
                cache == IF fault \in {"early", "persistent"} THEN cached_images
                         ELSE ImageStep(cached_images, Get(e, "id", NoneId),
                                        Get(e, "image", ""))
            IN  /\ current_countdown_index' = i
                /\ cached_images' = cache
                /\ call' = Call("display", FALSE, "None", current_countdown_index, n,
                                Presented(fault,
                                          CountdownFrame(e, cache, countdown_values)))
    /\ UNCHANGED <<config, countdowns, show_expired, last_rotation_time,
                   countdown_values, now, today, arg>>

\* get_display_duration()
GetDisplayDuration == config.display_duration

\* is_cycle_complete(), with _rotate_to_next_countdown()
IsCycleComplete ==
    LET elapsed == now - last_rotation_time
        en      == Enabled
        n       == Len(en.idx)
    IN
    /\ IF elapsed >= GetDisplayDuration
       THEN IF en.raised
            THEN /\ call' = Call("is_cycle_complete", TRUE, "raise",
                                 current_countdown_index, -1, BlankFrame)
                 /\ UNCHANGED <<current_countdown_index, last_rotation_time>>
            ELSE IF n = 0
            THEN /\ call' = Call("is_cycle_complete", FALSE, "True",
                                 current_countdown_index, 0, BlankFrame)
                 /\ UNCHANGED <<current_countdown_index, last_rotation_time>>
            ELSE /\ current_countdown_index' = RotateIndex(current_countdown_index, n)
                 /\ last_rotation_time' = now
                 /\ call' = Call("is_cycle_complete", FALSE, "True",
                                 current_countdown_index, n, BlankFrame)
       ELSE /\ call' = Call("is_cycle_complete", FALSE, "False",
                            current_countdown_index, -1, BlankFrame)
            /\ UNCHANGED <<current_countdown_index, last_rotation_time>>
    /\ UNCHANGED <<config, countdowns, show_expired, cached_images,
                   countdown_values, now, today, arg>>

ResetMutantRewind ==
    /\ last_rotation_time' = now
    /\ current_countdown_index' = 0
    /\ call' = Call("reset_cycle_state", FALSE, "None", current_countdown_index, -1,
                    BlankFrame)
    /\ UNCHANGED <<config, countdowns, show_expired, cached_images,
                   countdown_values, now, today, arg>>

\* reset_cycle_state()
ResetCycleState ==
    /\ last_rotation_time' = now
    /\ call' = Call("reset_cycle_state", FALSE, "None", current_countdown_index, -1,
                    BlankFrame)
    /\ UNCHANGED <<config, countdowns, show_expired, current_countdown_index,
                   cached_images, countdown_values, now, today, arg>>

ListMutantNever(old, new) == FALSE

\* on_config_change: "Clear image cache if countdown list changed"
ListChanged(old, new) == Len(new) # Len(old)

\* on_config_change(new_config); super() stores new_config as self.config
OnConfigChange(cfg) ==
    LET new    == ConfigCountdowns(cfg)
        sorted == SortByDisplayOrder(new)
    IN
    /\ config' = [display_duration |-> cfg.display_duration]
    /\ IF SortRaises(new)
       THEN \* the sort raises and leaves the list as it was given
            /\ countdowns' = new
            /\ call' = Call("on_config_change", TRUE, "raise",
                            current_countdown_index, -1, BlankFrame)
            /\ UNCHANGED <<current_countdown_index, cached_images, countdown_values>>
       ELSE /\ countdowns' = sorted
            /\ cached_images' = IF ListChanged(countdowns, sorted)
                                THEN EmptyDict ELSE cached_images
            /\ current_countdown_index' = IF ListChanged(countdowns, sorted)
                                          THEN 0 ELSE current_countdown_index
            /\ countdown_values' = UpdateValues(sorted, countdown_values, today)
            /\ call' = Call("on_config_change", FALSE, "None",
                            current_countdown_index, -1, BlankFrame)
    /\ UNCHANGED <<show_expired, last_rotation_time, now, today, arg>>

\* get_info()
GetInfo ==
    /\ call' = IF Enabled.raised
               THEN Call("get_info", TRUE, "raise", current_countdown_index, -1,
                         BlankFrame)
               ELSE Call("get_info", FALSE, "None", current_countdown_index,
                         Len(Enabled.idx), BlankFrame)
    /\ UNCHANGED state

\* cleanup()
Cleanup ==
    /\ cached_images' = EmptyDict
    /\ countdown_values' = EmptyDict
    /\ call' = Call("cleanup", FALSE, "None", current_countdown_index, -1, BlankFrame)
    /\ UNCHANGED <<config, countdowns, show_expired, current_countdown_index,
                   last_rotation_time, now, today, arg>>

RECURSIVE ValidateFrom(_, _)
ValidateFrom(cds, i) ==
    IF i > Len(cds) THEN "True"
    ELSE LET e == cds[i] IN
         IF ~IsDict(e) THEN "False"
         ELSE IF "id" \notin DOMAIN e THEN "False"
         ELSE IF "name" \notin DOMAIN e THEN "False"
         ELSE IF "target_date" \notin DOMAIN e THEN "False"
         ELSE IF e.target_date.k = "int" THEN "raise"   \* TypeError is not caught
         ELSE IF ~Parses(e.target_date) THEN "False"     \* ValueError is caught
         ELSE ValidateFrom(cds, i + 1)

\* validate_config(); base_ok is what BasePlugin.validate_config() returns
ValidateConfig(base_ok) ==
    LET r == IF ~base_ok THEN "False" ELSE ValidateFrom(countdowns, 1) IN
    /\ call' = Call("validate_config", r = "raise", r, current_countdown_index, -1,
                    BlankFrame)
    /\ UNCHANGED state

----------------------------------------------------------------------------
(* Specification: well-formed configurations, collaborators that do not fail *)

Next ==
    \/ Tick
    \/ NextDay
    \/ Update
    \/ Display("none")
    \/ IsCycleComplete
    \/ ResetCycleState
    \/ \E cfg \in Reconfigs : OnConfigChange(cfg)
    \/ GetInfo
    \/ Cleanup

Spec == Init /\ [][Next]_vars

----------------------------------------------------------------------------
(* Claims checked under Spec *)

\* the filtered list the current state yields, and its length
FilteredLen == Len(Enabled.idx)

\* C1: with a non-empty filtered list of length n, an is_cycle_complete() call
\* made when now - last_rotation_time >= display_duration moves the index from
\* i to (i + 1) mod n, also when i >= n because the list shrank; a call made
\* earlier leaves the index unchanged.
C1_RotationStep ==
    [][ (IsCycleComplete /\ ~Enabled.raised /\ FilteredLen > 0) =>
          IF now - last_rotation_time >= config.display_duration
          THEN current_countdown_index' =
                   (current_countdown_index + 1) % FilteredLen
          ELSE current_countdown_index' = current_countdown_index ]_vars

\* C1 witness: a rotation that found the index past the end of a shrunken list
C1_Witness ==
    /\ call.op = "is_cycle_complete"
    /\ call.ret = "True"
    /\ call.n > 0
    /\ call.pre_index >= call.n
    /\ current_countdown_index = (call.pre_index + 1) % call.n

\* C2 as claimed: in every reachable state with a non-empty filtered list,
\* 0 <= current_countdown_index < len(filtered).
C2_Claimed ==
    (~Enabled.raised /\ FilteredLen > 0) =>
        (0 <= current_countdown_index /\ current_countdown_index < FilteredLen)

\* C2 amended: right after a display() that found a non-empty filtered list,
\* and right after an is_cycle_complete() that rotated, the index is within
\* the filtered list; the index is never negative.
C2_IndexInRangeAfterRead ==
    /\ current_countdown_index >= 0
    /\ ( \/ (call.op = "display" /\ call.n > 0)
         \/ (call.op = "is_cycle_complete" /\ call.ret = "True" /\ call.n > 0) )
       => current_countdown_index < FilteredLen

\* C2 witness: display() found the index past the end and clamped it
C2_Witness ==
    /\ call.op = "display"
    /\ call.n > 0
    /\ call.pre_index >= call.n
    /\ current_countdown_index = 0

\* the entry's target date is before today's date
ExpiredToday(e) ==
    /\ "target_date" \in DOMAIN e
    /\ Parses(e.target_date)
    /\ Ordinal(<<e.target_date.y, e.target_date.m, e.target_date.d>>) < Ordinal(today)

\* the filter as the specification words it, on today's date
RECURSIVE SpecFilterFrom(_, _)
SpecFilterFrom(i, acc) ==
    IF i > Len(countdowns) THEN acc
    ELSE SpecFilterFrom(i + 1,
            IF Get(countdowns[i], "enabled", TRUE)
               /\ (~ExpiredToday(countdowns[i]) \/ show_expired)
            THEN Append(acc, i) ELSE acc)

\* C3 as claimed: wherever the filtered list is computed (display(),
\* is_cycle_complete(), get_info()), an entry is in it iff it is enabled and
\* (its target date is not before today's date, or show_expired is true).
C3_Claimed ==
    (call.op \in {"display", "is_cycle_complete", "get_info"} /\ call.n >= 0)
        => Enabled.idx = SpecFilterFrom(1, <<>>)

\* C4 as claimed: when show_expired is false and every entry is disabled or
\* has a target date before today, display() renders the "No Active /
\* Countdowns" frame.
C4_Claimed ==
    ( /\ call.op = "display"
      /\ ~call.raised
      /\ ~show_expired
      /\ \A i \in 1..Len(countdowns) :
            ~Get(countdowns[i], "enabled", TRUE) \/ ExpiredToday(countdowns[i]) )
        => call.frame = NoCountdownsFrame

\* C9 as claimed: is_cycle_complete() returns true iff now - last_rotation_time
\* >= display_duration; when it returns true, last_rotation_time is now
\* afterwards; when it returns false, index and last_rotation_time are
\* unchanged; for every filtered list, the empty one included.
C9_Claimed ==
    [][ IsCycleComplete =>
          /\ (call'.ret = "True") <=>
                 (now - last_rotation_time >= config.display_duration)
          /\ (call'.ret = "True") => (last_rotation_time' = now')
          /\ (call'.ret = "False") =>
                 /\ current_countdown_index' = current_countdown_index
                 /\ last_rotation_time' = last_rotation_time ]_vars

----------------------------------------------------------------------------
(* Specification of the countdown calculator: _calculate_time_remaining on    *)
(* every argument of CalcArgs and every date of CalcDays                      *)

\* target_date strings of the form Y-M-D, real dates and not (2024-02-30)
CalcArgs ==
    { Ymd(y, m, d) : y \in {2023, 2024}, m \in {1, 2, 3, 12},
                     d \in {1, 27, 28, 29, 30, 31} }

\* the dates the calculator is run on
CalcDays == { <<2023, 12, 31>>, <<2024, 1, 1>>, <<2024, 2, 28>>, <<2024, 2, 29>>,
              <<2024, 3, 1>> }

EmptyConfig == [is_list |-> TRUE, countdowns |-> <<>>, show_expired |-> FALSE,
                display_duration |-> 1]

InitCalc ==
    /\ \E t \in CalcDays : InitWith(EmptyConfig, t)
    /\ arg \in CalcArgs

\* self._calculate_time_remaining(arg)
CalcCall ==
    /\ call' = Call("_calculate_time_remaining", FALSE,
                    CalculateTimeRemaining(arg, today), current_countdown_index, -1,
                    BlankFrame)
    /\ UNCHANGED state

NextCalc == CalcCall

SpecCalc == InitCalc /\ [][NextCalc]_vars

\* t1 is an earlier date than t2
DateBefore(t1, t2) ==
    \/ t1[1] < t2[1]
    \/ t1[1] = t2[1] /\ t1[2] < t2[2]
    \/ t1[1] = t2[1] /\ t1[2] = t2[2] /\ t1[3] < t2[3]

\* the midnights between t1 and a later (or equal) date t2, counted month by
\* month
RECURSIVE DaysUntil(_, _)
DaysUntil(t1, t2) ==
    IF t1[1] = t2[1] /\ t1[2] = t2[2] THEN t2[3] - t1[3]
    ELSE (DaysInMonth(t1[1], t1[2]) - t1[3] + 1)
         + DaysUntil(NextDate(<<t1[1], t1[2], DaysInMonth(t1[1], t1[2])>>), t2)

\* d - t in whole days, counted on the calendar
DeltaDays(d, t) == IF DateBefore(d, t) THEN -DaysUntil(d, t) ELSE DaysUntil(t, d)

\* C5: for every real target date d and current date t, with delta = d - t in
\* whole days: delta < 0 gives is_expired, days = |delta|, "{|delta|}d ago";
\* delta = 0 gives is_today, days 0, "TODAY!"; delta = 1 gives days 1, "1 Day";
\* delta > 1 gives days = delta, "{delta} Days"; is_expired iff d < t, is_today
\* iff d = t, days is never negative.
C5_CalculatorRules ==
    (call.op = "_calculate_time_remaining" /\ Parses(arg)) =>
        LET delta == DeltaDays(<<arg.y, arg.m, arg.d>>, today)
            r     == call.ret
        IN  /\ r.is_expired <=> delta < 0
            /\ r.is_today <=> delta = 0
            /\ r.days = (IF delta < 0 THEN -delta ELSE delta)
            /\ r.days >= 0
            /\ r.text = CASE delta < 0 -> ToString(-delta) \o "d ago"
                          [] delta = 0 -> "TODAY!"
                          [] delta = 1 -> "1 Day"
                          [] OTHER -> ToString(delta) \o " Days"

\* C5 witness: a target two days back across the leap day
C5_Witness ==
    /\ call.op = "_calculate_time_remaining"
    /\ arg = Ymd(2024, 2, 28)
    /\ today = <<2024, 3, 1>>
    /\ call.ret = [days |-> 2, is_expired |-> TRUE, is_today |-> FALSE,
                   text |-> "2d ago"]

----------------------------------------------------------------------------
(* Specification of the image cache: entries with images, none of which      *)
(* expires, every display_duration 0 so that each is_cycle_complete() rotates *)

\* a (with either of two image paths, or with no image), c, and b whose image
\* file is missing
ImagePool ==
    { ImageEntry("a", Ymd(2024, 3, 2), TRUE, 0, "p1.png"),
      Entry("a", Ymd(2024, 3, 2), TRUE, 0),
      ImageEntry("a", Ymd(2024, 3, 2), TRUE, 0, "p2.png"),
      ImageEntry("b", Ymd(2024, 3, 2), TRUE, 0, "gone.png"),
      ImageEntry("c", Ymd(2024, 3, 2), TRUE, 1, "p2.png") }

CacheConfigs == ConfigsOver(DistinctSeqsUpTo(ImagePool, MaxEntries), {FALSE}, {0})

InitCache == (\E cfg \in CacheConfigs : InitWith(cfg, Today0)) /\ arg = NoDate

NextCache ==
    \/ Tick
    \/ Update
    \/ \E fault \in Faults : Display(fault)
    \/ IsCycleComplete
    \/ ResetCycleState
    \/ \E cfg \in CacheConfigs : OnConfigChange(cfg)
    \/ GetInfo
    \/ Cleanup

SpecCache == InitCache /\ [][NextCache]_vars

\* the ids of the entries of list cds
IdsOf(cds) == {Get(cds[i], "id", NoneId) : i \in 1..Len(cds)}

\* C6 as claimed: every key of cached_images is the id of an entry of the
\* currently configured entry list.
C6_Claimed == DOMAIN cached_images \subseteq IdsOf(countdowns)

\* the image paths list cds gives for entry id
PathsOf(cds, id) ==
    {Get(cds[i], "image", "") : i \in {j \in 1..Len(cds) : Get(cds[j], "id", NoneId) = id}}

\* C7 as claimed: when on_config_change() changes the image path of an entry
\* whose composited image is cached, that cached image is invalidated.
C7_Claimed ==
    [][ (\E cfg \in CacheConfigs : OnConfigChange(cfg)) =>
          \A id \in DOMAIN cached_images :
              ( /\ PathsOf(countdowns, id) # {}
                /\ PathsOf(countdowns', id) # {}
                /\ PathsOf(countdowns', id) # PathsOf(countdowns, id) )
              => id \notin DOMAIN cached_images' ]_vars

----------------------------------------------------------------------------
(* Specification with malformed configurations and failing collaborators *)

FutureDate == Ymd(2024, 3, 2)

\* a well-formed entry; a list element that is no dict; an id that is a list;
\* a target_date that is an integer; one that is no date; entries that lack
\* name, id or target_date
FaultPool ==
    { Entry("a", FutureDate, TRUE, 0),
      NotADict,
      Entry(UnhashableId, FutureDate, TRUE, 0),
      Entry("b", [k |-> "int", y |-> 0, m |-> 0, d |-> 0], TRUE, 0),
      Entry("b", [k |-> "text", y |-> 0, m |-> 0, d |-> 0], TRUE, 0),
      [id |-> "b", target_date |-> FutureDate],
      [name |-> "b", target_date |-> FutureDate],
      [id |-> "b", name |-> "b"] }

\* a configuration whose 'countdowns' value is not a list
NotAListConfig == [is_list |-> FALSE, countdowns |-> <<>>, show_expired |-> FALSE,
                   display_duration |-> 0]

FaultConfigs ==
    ConfigsOver(DistinctSeqsUpTo(FaultPool, MaxEntries), {FALSE}, {0})
        \cup {NotAListConfig}

InitFault == (\E cfg \in FaultConfigs : InitWith(cfg, Today0)) /\ arg = NoDate

NextFault ==
    \/ Update
    \/ \E fault \in Faults : Display(fault)
    \/ IsCycleComplete
    \/ ResetCycleState
    \/ \E cfg \in FaultConfigs : OnConfigChange(cfg)
    \/ GetInfo
    \/ Cleanup
    \/ \E base_ok \in BOOLEAN : ValidateConfig(base_ok)

SpecFault == InitFault /\ [][NextFault]_vars

\* C8 as claimed: every public operation returns normally, and a display()
\* in which a fault arises ends with the "Countdown / Error" frame rendered.
C8_Claimed ==
    /\ ~call.raised
    /\ (call.op = "display" /\ call.n > 0 /\ call.frame.kind # "countdown")
           => call.frame = ErrorFrame

\* the entry has id, name and a target_date that parses as YYYY-MM-DD
WellFormedEntry(e) ==
    /\ IsDict(e)
    /\ {"id", "name", "target_date"} \subseteq DOMAIN e
    /\ Parses(e.target_date)

\* C10 as claimed: validate_config() does not raise; it returns false when
\* an entry of self.countdowns is not a mapping, lacks id, name or
\* target_date, or has a target_date (of whatever type) that does not parse;
\* it returns true when the base validation passes and every entry is well
\* formed. (self.countdowns is always a list: __init__ and on_config_change
\* replace any other value by the empty list.)
C10_Claimed ==
    [][ \A base_ok \in BOOLEAN : ValidateConfig(base_ok) =>
          /\ ~call'.raised
          /\ (\E i \in 1..Len(countdowns) : ~WellFormedEntry(countdowns[i]))
                 => call'.ret = "False"
          /\ (base_ok /\ \A i \in 1..Len(countdowns) : WellFormedEntry(countdowns[i]))
                 => call'.ret = "True" ]_vars

----------------------------------------------------------------------------
(* Specification of the colour parser: _parse_color on every value of        *)
(* ColorArgs                                                                  *)

\* longest colour list tried
MaxColorLen == 4

\* A colour element is [k, v]: k = "int" the integer v; "bool" the boolean
\* v = 1 or 0; "float" the finite float v / 10; "inf" an infinite float of sign
\* v; "nan"; "str_float", "str_inf", "str_nan" a string that float() reads as
\* such a value; "str_text" a string float() rejects; "none" any other object
Elem(k, v) == [k |-> k, v |-> v]

\* int(x) of the finite float t / 10: truncation toward zero
Trunc(t) == IF t >= 0 THEN t \div 10 ELSE -((-t) \div 10)

\* one pass of the loop body on element c: the exception it raises, or the
\* element appended to color_numeric
ParseElem(c) ==
    LET checked(out) ==
            IF 0 <= out.v /\ out.v <= 255
            THEN [exc |-> "none", out |-> out]
            ELSE [exc |-> "ValueError", out |-> out]
    IN  CASE c.k \in {"str_text", "str_nan", "nan", "none"} ->
                 [exc |-> "ValueError", out |-> c]
          [] c.k \in {"str_inf", "inf"} ->
                 [exc |-> "OverflowError", out |-> c]   \* int(float('inf'))
          [] c.k \in {"str_float", "float"} -> checked(Elem("int", Trunc(c.v)))
          [] OTHER -> checked(c)                        \* int, and bool as it is

RECURSIVE ParseFrom(_, _, _, _)
ParseFrom(items, default, i, acc) ==
    IF i > Len(items) THEN [raised |-> FALSE, ret |-> acc]
    ELSE LET r == ParseElem(items[i]) IN
         IF r.exc = "none" THEN ParseFrom(items, default, i + 1, Append(acc, r.out))
         ELSE IF r.exc = "ValueError" THEN [raised |-> FALSE, ret |-> default]
         ELSE [raised |-> TRUE, ret |-> r.exc]   \* not caught by except (ValueError, TypeError)

\* _parse_color(color_value, default); a.is_seq: the value is a list or tuple
ParseColor(a) ==
    IF a.is_seq /\ Len(a.items) = 3
    THEN ParseFrom(a.items, a.default, 1, <<>>)
    ELSE [raised |-> FALSE, ret |-> a.default]

ColorPool ==
    { Elem("int", -1), Elem("int", 0), Elem("int", 255), Elem("int", 256),
      Elem("bool", 1), Elem("float", -5), Elem("float", 2559), Elem("float", 2560),
      Elem("inf", 1), Elem("nan", 0), Elem("str_float", 128), Elem("str_inf", 1),
      Elem("str_text", 0), Elem("none", 0) }

ColorDefaults ==
    { <<Elem("int", 255), Elem("int", 255), Elem("int", 255)>>,
      <<Elem("int", 200), Elem("int", 200), Elem("int", 200)>> }

\* triples over ColorPool, lists of another length, and values that are no list
ColorArgs ==
    { [is_seq |-> sq, items |-> l, default |-> d] :
        sq \in BOOLEAN,
        l \in [1..3 -> ColorPool]
              \cup UNION {[1..k -> {Elem("int", 0), Elem("inf", 1)}] :
                            k \in (0..MaxColorLen) \ {3}},
        d \in ColorDefaults }

InitColor ==
    /\ InitWith(EmptyConfig, Today0)
    /\ arg \in {a \in ColorArgs : a.is_seq \/ a.items = <<>>}

\* self._parse_color(arg.items, arg.default)
ParseColorCall ==
    /\ call' = Call("_parse_color", ParseColor(arg).raised, ParseColor(arg).ret,
                    current_countdown_index, -1, BlankFrame)
    /\ UNCHANGED state

NextColor == ParseColorCall

SpecColor == InitColor /\ [][NextColor]_vars

\* the value is a triple of integers, each in 0..255
IsRgb(t) ==
    /\ Len(t) = 3
    /\ \A i \in 1..3 : t[i].k \in {"int", "bool"} /\ 0 <= t[i].v /\ t[i].v <= 255

\* the element is an integer, a finite float or a numeric string whose
\* conversion lies in 0..255
GoodElem(c) ==
    \/ c.k \in {"int", "bool"} /\ 0 <= c.v /\ c.v <= 255
    \/ c.k \in {"float", "str_float"} /\ 0 <= Trunc(c.v) /\ Trunc(c.v) <= 255

\* C11 as claimed: _parse_color returns normally for every value; the result
\* is the default unchanged or a triple of integers in 0..255; it is the
\* default whenever the value is not a 3-element list or tuple or some element
\* is of a wrong type, non-numeric, non-finite or out of range.
C11_Claimed ==
    (call.op = "_parse_color") =>
        /\ ~call.raised
        /\ call.ret = arg.default \/ IsRgb(call.ret)
        /\ (~arg.is_seq \/ Len(arg.items) # 3
              \/ \E i \in 1..Len(arg.items) : ~GoodElem(arg.items[i]))
               => call.ret = arg.default

----------------------------------------------------------------------------
(* Specification of the entry-list order: entries tie on display_order or     *)
(* leave it out, every is_cycle_complete() rotates                            *)

\* e has neither display_order nor enabled
SortPool ==
    EntryPool \cup {[id |-> "e", name |-> "e", target_date |-> Ymd(2024, 3, 2)]}

SortConfigs == ConfigsOver(DistinctSeqsUpTo(SortPool, MaxEntries), BOOLEAN, {0})

InitSort == (\E cfg \in SortConfigs : InitWith(cfg, Today0)) /\ arg = NoDate

NextSort ==
    \/ NextDay
    \/ Update
    \/ Display("none")
    \/ IsCycleComplete
    \/ \E cfg \in {c \in SortConfigs : ~c.show_expired} : OnConfigChange(cfg)
    \/ Cleanup

SpecSort == InitSort /\ [][NextSort]_vars

\* the display-order key of an entry, 0 when it has none
OrderOf(e) == IF "display_order" \in DOMAIN e THEN e.display_order ELSE 0

\* the place of x in a list that holds it once
PosIn(l, x) == CHOOSE i \in 1..Len(l) : l[i] = x

\* s holds the elements of orig, ascending by key, ties in the order of orig
StableSortOf(s, orig) ==
    /\ Len(s) = Len(orig)
    /\ {s[i] : i \in 1..Len(s)} = {orig[i] : i \in 1..Len(orig)}
    /\ \A i, j \in 1..Len(s) : i < j =>
          /\ OrderOf(s[i]) <= OrderOf(s[j])
          /\ OrderOf(s[i]) = OrderOf(s[j]) => PosIn(orig, s[i]) < PosIn(orig, s[j])

\* C12: after __init__ and after every on_config_change() the entry list is
\* the configured list sorted ascending by display_order (0 when missing),
\* ties in configuration order; at every moment the filtered list is a
\* subsequence of the entry list, so ascending and no longer than it.
C12_SortedAndSubsequence ==
    /\ [] ( /\ call.op = "__init__" => StableSortOf(countdowns, call.ret)
            /\ \A i, j \in 1..Len(countdowns) :
                  i < j => OrderOf(countdowns[i]) <= OrderOf(countdowns[j])
            /\ ~Enabled.raised
            /\ Len(Filtered) <= Len(countdowns)
            /\ \A j \in 1..Len(Filtered) :
                  \E i \in 1..Len(countdowns) : countdowns[i] = Filtered[j]
            /\ \A i, j \in 1..Len(Filtered) : i < j =>
                  /\ PosIn(countdowns, Filtered[i]) < PosIn(countdowns, Filtered[j])
                  /\ OrderOf(Filtered[i]) <= OrderOf(Filtered[j]) )
    /\ [][ call'.op = "on_config_change" =>
             \A cfg \in SortConfigs :
                 StableSortOf(countdowns', cfg.countdowns) \/ ~OnConfigChange(cfg) ]_vars

\* C12 witness: a reconfiguration whose list <<d, e>> ties on the key (e has
\* none) and is kept in that order, with the filtered list <<e>> a proper
\* subsequence
C12_Witness ==
    /\ call.op = "on_config_change"
    /\ Len(countdowns) = 2
    /\ countdowns[1].id = "d"
    /\ countdowns[2].id = "e"
    /\ Len(Filtered) = 1
    /\ Filtered[1].id = "e"

----------------------------------------------------------------------------
(* Further claims checked under Spec *)

\* C13: an entry whose enabled flag is false is never in the filtered list,
\* whatever show_expired is and whether or not a result is cached for it, and
\* is never the entry display() renders.
C13_DisabledNeverShown ==
    /\ ~Enabled.raised
    /\ \A j \in 1..Len(Filtered) :
          "enabled" \in DOMAIN Filtered[j] => Filtered[j].enabled
    /\ (call.op = "display" /\ call.frame.kind = "countdown") =>
          \A i \in 1..Len(countdowns) :
              (countdowns[i].id = call.frame.id /\ "enabled" \in DOMAIN countdowns[i])
                  => countdowns[i].enabled

\* C13 witness: show_expired is on, the disabled entry d comes first in the
\* entry list and has a cached result, and display() renders a
C13_Witness ==
    /\ call.op = "display"
    /\ show_expired
    /\ Len(countdowns) = 2
    /\ countdowns[1].id = "d"
    /\ ~countdowns[1].enabled
    /\ "d" \in DOMAIN countdown_values
    /\ call.frame.kind = "countdown"
    /\ call.frame.id = "a"

\* C17 as claimed: whenever the filtered list is empty at a display() or
\* is_cycle_complete() call, the active index is 0 after that call.
C17_Claimed ==
    (call.op \in {"display", "is_cycle_complete"} /\ call.n = 0)
        => current_countdown_index = 0

\* C18: a display() that finds a non-empty filtered list neither fails nor
\* shows the error frame; if the index it finds is past the end of the list,
\* it sets the index to 0 and renders filtered[0]; otherwise it keeps the
\* index; the entry rendered is filtered[current_countdown_index].
C18_ClampedDisplay ==
    (call.op = "display" /\ call.n > 0) =>
        /\ ~call.raised
        /\ call.frame.kind = "countdown"
        /\ call.n = FilteredLen
        /\ current_countdown_index < FilteredLen
        /\ current_countdown_index =
               (IF call.pre_index >= call.n THEN 0 ELSE call.pre_index)
        /\ call.frame.id = Filtered[current_countdown_index + 1].id
        /\ call.frame.name = Filtered[current_countdown_index + 1].name

\* C18 witness: the second of two entries was active and has been filtered
\* out; display() renders the one that is left
C18_Witness ==
    /\ call.op = "display"
    /\ Len(countdowns) = 2
    /\ call.n = 1
    /\ call.pre_index = 1
    /\ current_countdown_index = 0
    /\ call.frame.kind = "countdown"
    /\ call.frame.id = Filtered[1].id

\* the step is a display() that found its index within a non-empty list
InRangeDisplay ==
    call'.op = "display" /\ call'.n > 0 /\ current_countdown_index < call'.n

\* C19 as claimed: update(), get_info(), cleanup(), on_config_change() and a
\* display() whose index is in range leave the active index and
\* last_rotation_time unchanged.
C19_Claimed ==
    [][ (call'.op \in {"update", "get_info", "cleanup", "on_config_change"}
           \/ InRangeDisplay)
          => UNCHANGED <<current_countdown_index, last_rotation_time>> ]_vars

\* C19 amended: update(), get_info(), cleanup() and a display() whose index
\* is in range leave the active index and last_rotation_time unchanged;
\* on_config_change() leaves last_rotation_time unchanged, and sets the index
\* to 0 when the number of entries changes and leaves it unchanged otherwise.
C19_SchedulerFrame ==
    [][ /\ (call'.op \in {"update", "get_info", "cleanup"} \/ InRangeDisplay)
            => UNCHANGED <<current_countdown_index, last_rotation_time>>
        /\ call'.op = "on_config_change"
            => /\ last_rotation_time' = last_rotation_time
               /\ current_countdown_index' =
                      IF Len(countdowns') # Len(countdowns)
                      THEN 0 ELSE current_countdown_index ]_vars

\* C19 witness: a reconfiguration from two entries to one found the index at
\* 1 and left it at 0
C19_Witness ==
    /\ call.op = "on_config_change"
    /\ call.pre_index = 1
    /\ current_countdown_index = 0
    /\ Len(countdowns) = 1

\* C20 as claimed: of two is_cycle_complete() calls with nothing in between
\* (no time passes), at most the first returns true and the index advances at
\* most once.
C20_Claimed ==
    [][ (call.op = "is_cycle_complete" /\ call'.op = "is_cycle_complete") =>
          /\ call'.ret = "False"
          /\ current_countdown_index' = current_countdown_index ]_vars


\* C24 as claimed: after on_config_change(new_config) the filtered list is
\* computed with the show_expired value of new_config: expired enabled
\* entries are in it when that value is true and are not when it is false.
C24_Claimed ==
    [][ call'.op = "on_config_change" =>
          \A cfg \in Reconfigs :
              OnConfigChange(cfg) =>
                  GetEnabledCountdowns(countdowns', countdown_values', show_expired')
                      = GetEnabledCountdowns(countdowns', countdown_values',
                                             cfg.show_expired) ]_vars


----------------------------------------------------------------------------
(* Further claims checked under SpecCache *)

\* C14: reset_cycle_state() sets last_rotation_time to the current time and
\* leaves the active index, the entry list, the countdown_values cache and the
\* cached_images cache unchanged.
C14_ResetFrame ==
    [][ call'.op = "reset_cycle_state" =>
          /\ last_rotation_time' = now
          /\ now' = now
          /\ UNCHANGED <<current_countdown_index, countdowns, countdown_values,
                         cached_images>> ]_vars

\* C14 witness: a reset at time 1 with the second entry active and both caches
\* filled
C14_Witness ==
    /\ call.op = "reset_cycle_state"
    /\ now = 1
    /\ last_rotation_time = 1
    /\ current_countdown_index = 1
    /\ DOMAIN cached_images # {}
    /\ DOMAIN countdown_values # {}

----------------------------------------------------------------------------
(* Specification of the fit-aspect size: _calculate_fit_size on every source  *)
(* and display size up to MaxSide                                             *)
(*                                                                            *)
(* scale = min(w / iw, h / ih) and int(iw * scale) are computed in binary     *)
(* floating point (IEEE 754 double, 53-bit significand, round to nearest      *)
(* even). For integers a, b, c far below 2^26 the value int(c * (a / b)) is   *)
(* determined as follows. Let j = floor(log2(a / b)), e = 52 - j and M the    *)
(* significand of a / b, so that a * 2^e = M * b + rho with -b/2 < rho < b/2  *)
(* (no tie can occur). The product is c * M / 2^e = c*a/b - c*rho / (b*2^e),  *)
(* to be rounded once more. It is within 2^-40 of c*a/b, so when b does not   *)
(* divide c*a the integer part is floor(c*a/b). When c*a/b is an integer U,   *)
(* the result is U unless the product lies below the midpoint between U and   *)
(* the double before U, which it does iff rho > 0 and                         *)
(* c * rho / (b * 2^e) > gap / 2, where gap = 2^(k-52) for                    *)
(* k = floor(log2(U)), halved when U is a power of two; then the result is    *)
(* U - 1.                                                                     *)

\* largest source or display side tried
MaxSide == 15

RECURSIVE Pow2(_)
Pow2(n) == IF n <= 0 THEN 1 ELSE 2 * Pow2(n - 1)

\* 2^e mod b
RECURSIVE PowMod2(_, _)
PowMod2(e, b) == IF e <= 0 THEN 1 % b ELSE (2 * PowMod2(e - 1, b)) % b

\* the largest j >= from with b * 2^j <= a, given b * 2^from <= a
RECURSIVE ExpUp(_, _, _)
ExpUp(a, b, from) == IF b * Pow2(from + 1) <= a THEN ExpUp(a, b, from + 1) ELSE from

\* the smallest m >= from with a * 2^m >= b
RECURSIVE ExpDown(_, _, _)
ExpDown(a, b, from) == IF a * Pow2(from) >= b THEN from ELSE ExpDown(a, b, from + 1)

\* floor(log2(a / b)): the binary exponent of the double a / b
FloorLog2(a, b) == IF a >= b THEN ExpUp(a, b, 0) ELSE -ExpDown(a, b, 1)

\* b times the signed rounding error of the significand of the double a / b
RoundErr(a, b) ==
    LET r == (a * PowMod2(52 - FloorLog2(a, b), b)) % b
    IN  IF 2 * r < b THEN r ELSE r - b

\* int(c * (a / b)) in double arithmetic
ScaledInt(c, a, b) ==
    IF (c * a) % b # 0 THEN (c * a) \div b
    ELSE LET U    == (c * a) \div b
             rho  == RoundErr(a, b)
             k    == FloorLog2(U, 1)
             j    == FloorLog2(a, b)
             half == IF U = Pow2(k) THEN b * Pow2(k - j) ELSE b * Pow2(k - j + 1)
         IN  IF rho > 0 /\ 4 * c * rho > half THEN U - 1 ELSE U

\* _calculate_fit_size((iw, ih), (w, h)): min() keeps scale_x unless scale_y
\* is smaller
CalculateFitSize(iw, ih, w, h) ==
    IF h * iw < w * ih
    THEN <<ScaledInt(iw, h, ih), ScaledInt(ih, h, ih)>>
    ELSE <<ScaledInt(iw, w, iw), ScaledInt(ih, w, iw)>>

FitArgs == [iw : 1..MaxSide, ih : 1..MaxSide, w : 1..MaxSide, h : 1..MaxSide]

InitFit ==
    /\ InitWith(EmptyConfig, Today0)
    /\ arg \in FitArgs

\* self._calculate_fit_size((arg.iw, arg.ih), (arg.w, arg.h))
FitCall ==
    /\ call' = Call("_calculate_fit_size", FALSE,
                    CalculateFitSize(arg.iw, arg.ih, arg.w, arg.h),
                    current_countdown_index, -1, BlankFrame)
    /\ UNCHANGED state

NextFit == FitCall

SpecFit == InitFit /\ [][NextFit]_vars

\* C15 as claimed: for all positive source sizes (iw, ih) and display sizes
\* (w, h), the size (w', h') returned has w' <= w and h' <= h, and w' = w or
\* h' = h; the centring offsets ((w - w') // 2, (h - h') // 2) are not
\* negative.
C15_Claimed ==
    (call.op = "_calculate_fit_size") =>
        /\ call.ret[1] <= arg.w
        /\ call.ret[2] <= arg.h
        /\ call.ret[1] = arg.w \/ call.ret[2] = arg.h
        /\ (arg.w - call.ret[1]) \div 2 >= 0
        /\ (arg.h - call.ret[2]) \div 2 >= 0


\* some cached image is dropped or replaced by the step
CacheLoses ==
    \E id \in DOMAIN cached_images :
        id \notin DOMAIN cached_images' \/ cached_images'[id] # cached_images[id]

\* the step is a display() that rendered an entry's frame
Rendered == call'.op = "display" /\ ~call'.raised /\ call'.frame.kind = "countdown"

\* the entry that display() rendered (display() changes neither list)
RenderedEntry == countdowns[Enabled.idx[current_countdown_index' + 1]]

C22_MissingImageFrame ==
    [][ (Display("none") /\ ~Enabled.raised /\ FilteredLen > 0) =>
          LET e    == RenderedEntry
              path == Get(e, "image", "")
          IN  (path # "" /\ path \notin ExistingFiles
                 /\ e.id \notin DOMAIN cached_images) =>
                  /\ cached_images' = cached_images
                  /\ ~call'.raised
                  /\ call'.frame # ErrorFrame
                  /\ call'.frame.kind = "countdown"
                  /\ call'.frame.image = ""
                  /\ call'.frame.name = e.name
                  /\ call'.frame.text =
                         IF e.id \in DOMAIN countdown_values
                         THEN countdown_values[e.id].text ELSE "---" ]_vars

\* C22 witness: display() of b, whose image file is missing, with b's value
\* computed and another entry's image cached
C22_Witness ==
    /\ call.op = "display"
    /\ call.frame.kind = "countdown"
    /\ call.frame.id = "b"
    /\ call.frame.image = ""
    /\ call.frame.text = "3 Days"
    /\ "b" \notin DOMAIN cached_images
    /\ DOMAIN cached_images # {}


----------------------------------------------------------------------------
(* Specification of update(): entries whose target_date is malformed, and     *)
(* entries that share an id                                                   *)

Malformed(k) == [k |-> k, y |-> 0, m |-> 0, d |-> 0]

\* a (due on Today0) and c; a second entry with id a and another date; m with
\* a target_date that is no date, that is no string, that is the empty string
UpdatePool ==
    { Entry("a", Ymd(2024, 2, 28), TRUE, 0),
      Entry("c", Ymd(2024, 3, 2), TRUE, 0),
      Entry("a", Ymd(2024, 3, 2), TRUE, 0),
      Entry("m", Malformed("text"), TRUE, 0),
      Entry("m", Malformed("int"), TRUE, 0),
      Entry("m", Malformed("empty"), TRUE, 0) }

UpdateConfigs == ConfigsOver(DistinctSeqsUpTo(UpdatePool, MaxEntries), {FALSE}, {0})

InitUpdate == (\E cfg \in UpdateConfigs : InitWith(cfg, Today0)) /\ arg = NoDate

NextUpdate ==
    \/ NextDay
    \/ Update
    \/ Display("none")
    \/ \E cfg \in UpdateConfigs : OnConfigChange(cfg)
    \/ Cleanup

SpecUpdate == InitUpdate /\ [][NextUpdate]_vars

\* the result the specification gives for target date d on date t
ExpectedResult(d, t) ==
    LET delta == DeltaDays(d, t) IN
    CASE delta < 0 -> [days |-> -delta, is_expired |-> TRUE, is_today |-> FALSE,
                       text |-> ToString(-delta) \o "d ago"]
      [] delta = 0 -> [days |-> 0, is_expired |-> FALSE, is_today |-> TRUE,
                       text |-> "TODAY!"]
      [] delta = 1 -> [days |-> 1, is_expired |-> FALSE, is_today |-> FALSE,
                       text |-> "1 Day"]
      [] OTHER -> [days |-> delta, is_expired |-> FALSE, is_today |-> FALSE,
                   text |-> ToString(delta) \o " Days"]

\* the places in the entry list that hold id
PlacesOf(id) == {i \in 1..Len(countdowns) : countdowns[i].id = id}

\* C21 as claimed: update() returns normally; after it, an entry whose
\* target date is malformed has the result {days 0, is_expired false,
\* is_today false, text "Error"}, and every other entry has the result
\* computed from its own target date and today's date. (Entries whose id is
\* shared are left to C23.)
C21_Claimed ==
    (call.op = "update") =>
        /\ ~call.raised
        /\ \A i \in 1..Len(countdowns) :
              LET e == countdowns[i] IN
              PlacesOf(e.id) = {i} =>
                  /\ e.id \in DOMAIN countdown_values
                  /\ countdown_values[e.id] =
                         IF Parses(e.target_date)
                         THEN ExpectedResult(<<e.target_date.y, e.target_date.m,
                                               e.target_date.d>>, today)
                         ELSE [days |-> 0, is_expired |-> FALSE, is_today |-> FALSE,
                               text |-> "Error"]


\* C23 as claimed: when two entries share an id, the result stored under that
\* id after update() is the one computed from the target date of the first
\* entry with that id in list order.
C23_Claimed ==
    (call.op = "update") =>
        \A i \in 1..Len(countdowns) :
            LET e     == countdowns[i]
                first == countdowns[CHOOSE j \in PlacesOf(e.id) :
                                        \A k \in PlacesOf(e.id) : j <= k]
            IN  (Cardinality(PlacesOf(e.id)) > 1 /\ Parses(first.target_date)) =>
                    /\ e.id \in DOMAIN countdown_values
                    /\ countdown_values[e.id] =
                           ExpectedResult(<<first.target_date.y, first.target_date.m,
                                            first.target_date.d>>, today)

----------------------------------------------------------------------------
(* Specification of the rotation under fairness: a fixed configuration with   *)
(* display_duration 1 and a non-empty filtered list, a fixed date, a clock    *)
(* that keeps advancing, and a host that keeps calling display() and          *)
(* is_cycle_complete()                                                        *)

\* configurations with at least one enabled entry, none of them expired
LiveConfigs ==
    { cfg \in ConfigsOver(DistinctSeqsUpTo(EntryPool, MaxEntries), {FALSE}, {1}) :
        \E i \in 1..Len(cfg.countdowns) : cfg.countdowns[i].enabled }

InitLive == (\E cfg \in LiveConfigs : InitWith(cfg, Today0)) /\ arg = NoDate

NextLive ==
    \/ Tick
    \/ Update
    \/ Display("none")
    \/ IsCycleComplete

SpecLive ==
    /\ InitLive
    /\ [][NextLive]_vars
    /\ WF_vars(Tick)
    /\ WF_vars(Display("none"))
    /\ WF_vars(IsCycleComplete)

\* display() has just rendered the j-th entry of the filtered list
RenderedNow(j) ==
    /\ call.op = "display"
    /\ call.frame.kind = "countdown"
    /\ call.frame.id = Filtered[j].id

\* the index moves only from the entry that display() has just rendered to
\* the next one in the filtered list's order
StepsInOrder ==
    current_countdown_index' # current_countdown_index =>
        /\ current_countdown_index' = (current_countdown_index + 1) % FilteredLen
        /\ RenderedNow(current_countdown_index + 1)

\* C25 as claimed: when time keeps advancing and is_cycle_complete() and
\* display() keep being called, every entry of the filtered list is rendered
\* again and again, and the entries rendered follow the list's order
\* cyclically, none skipped.
C25_Claimed ==
    /\ \A j \in 1..MaxEntries : []<>(j > FilteredLen \/ RenderedNow(j))
    /\ [][StepsInOrder]_vars

\* the host calls is_cycle_complete() only directly after a display() call
HostOrder == call'.op = "is_cycle_complete" => call.op = "display"

\* C25 amended: when, besides, the host from some point on calls
\* is_cycle_complete() only directly after display(), every entry of the
\* filtered list is rendered again and again; and a rotation made directly
\* after a display() goes from the entry just rendered to the next one in
\* the filtered list's order.
C25_RotationInHostOrder ==
    /\ (<>[][HostOrder]_vars) =>
           \A j \in 1..MaxEntries : []<>(j > FilteredLen \/ RenderedNow(j))
    /\ [][(call.op = "display" /\ call'.op = "is_cycle_complete") => StepsInOrder]_vars

\* C25 witness: after a rotation at time 1, display() renders the second of
\* two entries
C25_Witness ==
    /\ FilteredLen = 2
    /\ now = 1
    /\ last_rotation_time = 1
    /\ current_countdown_index = 1
    /\ RenderedNow(2)

====
